---------------------------- MODULE Spec2Model ----------------------------
(***************************************************************************)
(* Model of python-poisson-app.py: the Poisson sample-size calculator.     *)
(*                                                                         *)
(* The program computes in IEEE double precision.  The model computes in   *)
(* signed decimal fixed point with FracLimbs limbs of three digits after    *)
(* the point (a resolution of 10^-21) and as many limbs before it as the   *)
(* value needs, up to the double range (10^308); beyond it a value is      *)
(* +inf or -inf, and nan is carried as in IEEE arithmetic.  Magnitudes are *)
(* sequences of limbs, least significant first, because the model          *)
(* checker's integers have 32 bits.  The floor 1e-308 of line 16 lies      *)
(* below the resolution: a miss probability is raised to it exactly when   *)
(* it is not positive.                                                     *)
(***************************************************************************)
EXTENDS Integers, Sequences, FiniteSets, TLC

(***************************************************************************)
(* Natural numbers of any size: a sequence of limbs in 0..Base-1, least    *)
(* significant first, no leading zero limb; zero is the empty sequence.    *)
(* Carries are looked ahead and sums are halved recursively, so that the   *)
(* depth of evaluation stays small whatever the number of limbs.           *)
(***************************************************************************)
Base == 1000

Max(S) == CHOOSE x \in S : \A y \in S : y <= x
Min(i, j) == IF i < j THEN i ELSE j

At(a, i) == IF i >= 1 /\ i <= Len(a) THEN a[i] ELSE 0

\* the sequence of the values of a function on 1..n
Limbs(f) == SubSeq(f, 1, Len(f))

NTrim(a) ==
    LET nz == {i \in 1..Len(a) : a[i] # 0}
    IN  IF nz = {} THEN << >> ELSE SubSeq(a, 1, Max(nz))

RECURSIVE NFromInt(_)
NFromInt(i) ==
    IF i = 0 THEN << >> ELSE <<i % Base>> \o NFromInt(i \div Base)

\* the value of a magnitude that fits 32 bits
RECURSIVE NToInt(_)
NToInt(a) == IF a = << >> THEN 0 ELSE Head(a) + Base * NToInt(Tail(a))

\* -1, 0, 1 as a < b, a = b, a > b
NCmp(a, b) ==
    IF Len(a) < Len(b) THEN -1
    ELSE IF Len(a) > Len(b) THEN 1
    ELSE LET D == {i \in 1..Len(a) : a[i] # b[i]}
         IN  IF D = {} THEN 0
             ELSE IF a[Max(D)] < b[Max(D)] THEN -1 ELSE 1

NAdd(a, b) ==
    LET n == IF Len(a) < Len(b) THEN Len(b) ELSE Len(a)
        s == Limbs([i \in 1..n |-> At(a, i) + At(b, i)])
        c[i \in 0..n] ==
            IF i = 0 THEN FALSE
            ELSE s[i] >= Base \/ (s[i] = Base - 1 /\ c[i - 1])
        r == Limbs([i \in 1..n |-> (s[i] + (IF c[i - 1] THEN 1 ELSE 0)) % Base])
    IN  IF c[n] THEN Append(r, 1) ELSE r

\* a - b for a >= b
NSub(a, b) ==
    LET n == Len(a)
        d == Limbs([i \in 1..n |-> a[i] - At(b, i)])
        w[i \in 0..n] ==
            IF i = 0 THEN FALSE
            ELSE d[i] < 0 \/ (d[i] = 0 /\ w[i - 1])
        r == [i \in 1..n |-> (d[i] - (IF w[i - 1] THEN 1 ELSE 0) + Base) % Base]
    IN  NTrim(r)

\* a * Base^n
NShl(a, n) ==
    IF a = << >> THEN << >>
    ELSE Limbs([i \in 1..(Len(a) + n) |-> IF i <= n THEN 0 ELSE a[i - n]])

\* a \div Base^n
NShr(a, n) == IF Len(a) <= n THEN << >> ELSE SubSeq(a, n + 1, Len(a))

\* the magnitude whose limb i holds c[i], each 0 <= c[i] < Base^3
Normalize(c) ==
    LET lo  == NTrim([i \in 1..Len(c) |-> c[i] % Base])
        mid == NTrim([i \in 1..Len(c) |-> (c[i] \div Base) % Base])
        hi  == NTrim([i \in 1..Len(c) |-> c[i] \div (Base * Base)])
    IN  NAdd(NAdd(lo, NShl(mid, 1)), NShl(hi, 2))

\* a * d for 0 <= d < Base^2
NMulSmall(a, d) == Normalize(Limbs([i \in 1..Len(a) |-> a[i] * d]))

\* sum over j in lo..hi of a[j] * b[i - j + 1]
RECURSIVE SumProd(_, _, _, _, _)
SumProd(a, b, i, lo, hi) ==
    IF lo > hi THEN 0
    ELSE IF lo = hi THEN a[lo] * b[i - lo + 1]
    ELSE LET mid == (lo + hi) \div 2
         IN  SumProd(a, b, i, lo, mid) + SumProd(a, b, i, mid + 1, hi)

NMul(a, b) ==
    IF a = << >> \/ b = << >> THEN << >>
    ELSE Normalize(Limbs([i \in 1..(Len(a) + Len(b) - 1) |->
            SumProd(a, b, i, IF i > Len(b) THEN i - Len(b) + 1 ELSE 1,
                    Min(i, Len(a)))]))

\* a \div d for 0 < d < Base^2; st = <<limbs left, remainder, quotient>>
RECURSIVE NDivSmallAt(_, _, _)
NDivSmallAt(a, d, st) ==
    IF st[1] = 0 THEN st[3]
    ELSE LET x == st[2] * Base + a[st[1]]
         IN  NDivSmallAt(a, d, <<st[1] - 1, x % d, <<x \div d>> \o st[3]>>)

NDivSmall(a, d) == NTrim(NDivSmallAt(a, d, <<Len(a), 0, << >> >>))

\* the largest d in lo..hi with d * b <= r (lo satisfies it)
RECURSIVE NDigit(_, _, _, _)
NDigit(r, b, lo, hi) ==
    IF lo = hi THEN lo
    ELSE LET mid == (lo + hi + 1) \div 2
         IN  IF NCmp(NMulSmall(b, mid), r) <= 0
             THEN NDigit(r, b, mid, hi)
             ELSE NDigit(r, b, lo, mid - 1)

\* long division, most significant limb first; the leading limbs of the
\* remainder and of the divisor bracket each quotient limb;
\* st = <<limbs left, remainder, quotient>>
RECURSIVE NDivAt(_, _, _)
NDivAt(a, b, st) ==
    IF st[1] = 0 THEN st[3]
    ELSE LET r1 == NTrim(<<a[st[1]]>> \o st[2])
             sh == IF Len(b) > 2 THEN Len(b) - 2 ELSE 0
             rt == NToInt(NShr(r1, sh))
             bt == NToInt(NShr(b, sh))
             d  == IF NCmp(r1, b) < 0 THEN 0
                   ELSE NDigit(r1, b, IF rt \div (bt + 1) = 0 THEN 1
                                      ELSE rt \div (bt + 1),
                               Min(Base - 1, rt \div bt))
             r2 == IF d = 0 THEN r1 ELSE NSub(r1, NMulSmall(b, d))
         IN  NDivAt(a, b, <<st[1] - 1, r2, <<d>> \o st[3]>>)

\* a \div b for b > 0
NDiv(a, b) == NTrim(NDivAt(a, b, <<Len(a), << >>, << >> >>))

(***************************************************************************)
(* float64 values.  t is "fin", "inf" or "nan"; s is the sign (-1, 0, 1);  *)
(* m is the magnitude in units of Base^-FracLimbs.  Every value has one    *)
(* representation, so equal values are equal records.                      *)
(***************************************************************************)
FracLimbs == 7

\* finite doubles stay below about 1.8 * 10^308: 103 limbs before the point
MaxLimbs == 103 + FracLimbs

NaN == [t |-> "nan", s |-> 0, m |-> << >>]
Inf(sg) == [t |-> "inf", s |-> sg, m |-> << >>]
Zero == [t |-> "fin", s |-> 0, m |-> << >>]

Fin(sg, mag) ==
    IF mag = << >> \/ sg = 0 THEN Zero
    ELSE IF Len(mag) > MaxLimbs THEN Inf(sg)
    ELSE [t |-> "fin", s |-> sg, m |-> mag]

Abs(i) == IF i < 0 THEN -i ELSE i
Sign(i) == IF i < 0 THEN -1 ELSE IF i > 0 THEN 1 ELSE 0

\* the double of an integer
FromInt(i) == Fin(Sign(i), NShl(NFromInt(Abs(i)), FracLimbs))

\* 1.0 as a magnitude and as a double
UnitMag == <<0, 0, 0, 0, 0, 0, 0, 1>>
One == [t |-> "fin", s |-> 1, m |-> UnitMag]

IsNaN(a) == a.t = "nan"
IsFinite(a) == a.t = "fin"

Neg(a) == [a EXCEPT !.s = -a.s]

Add(a, b) ==
    IF IsNaN(a) \/ IsNaN(b) THEN NaN
    ELSE IF a.t = "inf" /\ b.t = "inf" THEN (IF a.s = b.s THEN a ELSE NaN)
    ELSE IF a.t = "inf" THEN a
    ELSE IF b.t = "inf" THEN b
    ELSE IF a.s = 0 THEN b
    ELSE IF b.s = 0 THEN a
    ELSE IF a.s = b.s THEN Fin(a.s, NAdd(a.m, b.m))
    ELSE LET c == NCmp(a.m, b.m)
         IN  IF c = 0 THEN Zero
             ELSE IF c > 0 THEN Fin(a.s, NSub(a.m, b.m))
             ELSE Fin(b.s, NSub(b.m, a.m))

Sub(a, b) == Add(a, Neg(b))

\* products and quotients are cut (not rounded) to the resolution
Mul(a, b) ==
    IF IsNaN(a) \/ IsNaN(b) THEN NaN
    ELSE IF a.s * b.s = 0 THEN (IF IsFinite(a) /\ IsFinite(b) THEN Zero ELSE NaN)
    ELSE IF a.t = "inf" \/ b.t = "inf" THEN Inf(a.s * b.s)
    ELSE IF Len(a.m) + Len(b.m) - 1 - FracLimbs > MaxLimbs THEN Inf(a.s * b.s)
    ELSE Fin(a.s * b.s, NShr(NMul(a.m, b.m), FracLimbs))

Div(a, b) ==
    IF IsNaN(a) \/ IsNaN(b) THEN NaN
    ELSE IF a.t = "inf"
         THEN (IF b.t = "inf" THEN NaN ELSE Inf(IF b.s < 0 THEN -a.s ELSE a.s))
    ELSE IF b.t = "inf" THEN Zero
    ELSE IF b.s = 0 THEN (IF a.s = 0 THEN NaN ELSE Inf(a.s))
    ELSE IF a.s = 0 THEN Zero
    ELSE Fin(a.s * b.s, NDiv(NShl(a.m, FracLimbs), b.m))

\* a < b and a <= b of doubles: false when either is nan
Less(a, b) ==
    /\ ~IsNaN(a) /\ ~IsNaN(b)
    /\ Sub(a, b) # NaN
    /\ Sub(a, b).s < 0

LessEq(a, b) ==
    /\ ~IsNaN(a) /\ ~IsNaN(b)
    /\ \/ a = b
       \/ Less(a, b)

\* the whole part and the fraction of a magnitude
WholeMag(mag) == NShr(mag, FracLimbs)
FracMag(mag) == NTrim(SubSeq(mag, 1, Min(FracLimbs, Len(mag))))

\* square and multiply, e >= 0
RECURSIVE PowNat(_, _)
PowNat(b, e) ==
    IF e = 0 THEN One
    ELSE LET h  == PowNat(b, e \div 2)
             h2 == Mul(h, h)
         IN  IF e % 2 = 1 THEN Mul(h2, b) ELSE h2

\* np.power(b, e) of a double b and an integer e
Power(b, e) ==
    IF e = 0 THEN One
    ELSE IF IsNaN(b) THEN NaN
    ELSE IF e > 0 THEN PowNat(b, e)
    ELSE IF IsFinite(b) /\ b.s # 0 /\ NCmp(b.m, UnitMag) < 0
         THEN PowNat(Div(One, b), -e)
    ELSE Div(One, PowNat(b, -e))

\* atanh(y) = sum over j of y^(2j+1) / (2j+1); st = <<y^(2j+1), j, sum so far>>
RECURSIVE AtanhTerms(_, _)
AtanhTerms(y2, st) ==
    IF st[1] = << >> THEN st[3]
    ELSE AtanhTerms(y2, <<NShr(NMul(st[1], y2), FracLimbs), st[2] + 1,
                          NAdd(st[3], NDivSmall(st[1], 2 * st[2] + 1))>>)

Atanh(y) == AtanhTerms(NShr(NMul(y, y), FracLimbs), <<y, 0, << >> >>)

\* ln 2 = 2 atanh(1/3), as Atanh gives it
Ln2Mag == <<402, 309, 945, 559, 180, 147, 693>>

\* st = <<v, e>> with the same v * 2^e throughout, until 1 <= v < 2
RECURSIVE LnReduce(_)
LnReduce(st) ==
    IF NCmp(st[1], NMulSmall(UnitMag, 512)) >= 0
    THEN LnReduce(<<NDivSmall(st[1], 512), st[2] + 9>>)
    ELSE IF NCmp(st[1], NMulSmall(UnitMag, 2)) >= 0
    THEN LnReduce(<<NDivSmall(st[1], 2), st[2] + 1>>)
    ELSE IF NCmp(NMulSmall(st[1], 512), UnitMag) <= 0
    THEN LnReduce(<<NMulSmall(st[1], 512), st[2] - 9>>)
    ELSE IF NCmp(st[1], UnitMag) < 0
    THEN LnReduce(<<NMulSmall(st[1], 2), st[2] - 1>>)
    ELSE st

\* np.log: ln(v 2^e) = e ln 2 + 2 atanh((v - 1) / (v + 1))
Ln(a) ==
    IF IsNaN(a) THEN NaN
    ELSE IF a.s < 0 THEN NaN
    ELSE IF a.t = "inf" THEN a
    ELSE IF a.s = 0 THEN Inf(-1)
    ELSE LET r == LnReduce(<<a.m, 0>>)
             y == NDiv(NShl(NSub(r[1], UnitMag), FracLimbs), NAdd(r[1], UnitMag))
         IN  Add(Fin(Sign(r[2]), NMulSmall(Ln2Mag, Abs(r[2]))),
                 Fin(1, NMulSmall(Atanh(y), 2)))

\* exp(f) = sum over j of f^j / j!; st = <<f^j / j!, j + 1, sum so far>>
RECURSIVE ExpTerms(_, _)
ExpTerms(f, st) ==
    IF st[1] = << >> THEN st[3]
    ELSE ExpTerms(f, <<NDivSmall(NShr(NMul(st[1], f), FracLimbs), st[2]),
                       st[2] + 1, NAdd(st[3], st[1])>>)

ExpFrac(f) == ExpTerms(f, <<UnitMag, 1, << >> >>)

\* e = exp(1) as ExpFrac gives it, and 1 / e
Euler == [t |-> "fin", s |-> 1, m |-> <<350, 235, 45, 459, 828, 281, 718, 2>>]
EulerInv == [t |-> "fin", s |-> 1, m |-> <<596, 321, 442, 171, 441, 879, 367>>]

\* np.exp: exp(n + f) = e^n exp(f) with n the floor and 0 <= f < 1
Exp(a) ==
    IF IsNaN(a) THEN NaN
    ELSE IF a.t = "inf" THEN (IF a.s > 0 THEN a ELSE Zero)
    ELSE IF Len(WholeMag(a.m)) > 1 THEN (IF a.s > 0 THEN Inf(1) ELSE Zero)
    ELSE LET w == NToInt(WholeMag(a.m))
             f == FracMag(a.m)
         IN  IF a.s >= 0
             THEN Mul(PowNat(Euler, w), Fin(1, ExpFrac(f)))
             ELSE IF f = << >>
             THEN PowNat(EulerInv, w)
             ELSE Mul(PowNat(EulerInv, w + 1),
                      Fin(1, ExpFrac(NSub(UnitMag, f))))

\* rounding toward zero instead of up
Truncate(a) == a.s * NToInt(WholeMag(a.m))

\* np.ceil of a finite double, as an integer
Ceil(a) ==
    LET w == NToInt(WholeMag(a.m))
    IN  IF a.s > 0 THEN (IF FracMag(a.m) = << >> THEN w ELSE w + 1)
        ELSE -w

(***************************************************************************)
(* The two calculation functions.                                          *)
(***************************************************************************)

\* a range one term longer
MaxKOneMore(lambda_val) == Min(1000, lambda_val * 5 + 1)

\* line 8: min(1000, int(lambda_val * 5))
MaxK(lambda_val) == Min(1000, lambda_val * 5)

\* gammaln(k_range + 1): ln 0!, ln 1!, ..., each the one before plus ln k;
\* st holds gammaln(1), ..., gammaln(Len(st))
RECURSIVE GammaLnUpTo(_, _)
GammaLnUpTo(n, st) ==
    IF Len(st) > n THEN st
    ELSE GammaLnUpTo(n, Append(st, Add(st[Len(st)], Ln(FromInt(Len(st))))))

GammaLn(n) == GammaLnUpTo(n, <<Zero>>)

\* line 12, on k_range = 0..n
LogPoisson(lambda_val, n) ==
    LET ln_lambda == Ln(FromInt(lambda_val))
        lgam == GammaLn(n)
    IN  [k \in 0..n |->
            Sub(Sub(Mul(FromInt(k), ln_lambda), FromInt(lambda_val)), lgam[k + 1])]

\* line 15, on k_range = 0..n
ProbMiss(n, size, species, copies) ==
    [k \in 0..n |->
        Power(Sub(One, Div(FromInt(k), FromInt(species * copies))), size)]

\* np.log(1e-308) = -308 ln 10
LogFloor ==
    [t |-> "fin", s |-> -1, m |-> <<296, 660, 70, 166, 642, 208, 196, 709>>]

\* line 16 for one element: 1e-308 lies below the resolution, so the maximum
\* is 1e-308 exactly when the element is not positive
LogMaximum(p) ==
    IF IsNaN(p) THEN NaN
    ELSE IF p.s <= 0 THEN LogFloor
    ELSE Ln(p)

\* line 21
LogAddExp(acc, log_term) == Ln(Add(Exp(acc), Exp(log_term)))

\* np.log(0.05)
Ln005 ==
    [t |-> "fin", s |-> -1, m |-> <<374, 993, 990, 553, 273, 732, 995, 2>>]

\* lines 25-32
calculate_capture_probability(copy_num, size, num_samples, species, copies) ==
    LET prob_miss_single ==
            Power(Sub(One, Div(FromInt(copy_num), FromInt(species * copies))), size)
        prob_miss_all == Power(prob_miss_single, num_samples)
    IN  Mul(Sub(One, prob_miss_all), FromInt(100))

\* a curve one point short
MaxCopyNumShort(target) == target * 2 - 1

\* line 86
max_copy_num(target) == target * 2

(***************************************************************************)
(* The application: main() is run again on every interaction.  A run       *)
(* without the button reads the four number inputs and shows nothing more; *)
(* a run with the button goes on to the calculation and the curve.         *)
(***************************************************************************)
VARIABLES
    pc,              \* "idle", "loop", "returned", "done" or "raised"
    copy_number,     \* the four number inputs (lines 45-67)
    sample_size,
    total_species,
    mean_copies,
    max_k,           \* the locals of calculate_poisson_samples
    log_poisson,
    prob_miss,
    log_prob_miss,
    pos,             \* how many terms the loop of line 20 has taken
    sum_exp,
    samples_needed,  \* line 71
    raised,          \* the exception that ended the run, or "none"
    copy_numbers,    \* line 87
    probabilities,   \* line 88
    call,            \* the arguments of a direct call
    result           \* and what it returned

vars == <<pc, copy_number, sample_size, total_species, mean_copies, max_k,
          log_poisson, prob_miss, log_prob_miss, pos, sum_exp, samples_needed,
          raised, copy_numbers, probabilities, call, result>>

\* the values the number inputs start with
DefaultCopyNumber == 30
DefaultSampleSize == 8000
DefaultTotalSpecies == 350000
DefaultMeanCopies == 30

\* the values entered into the number inputs
MaxCopyNumber == 2
MaxSampleSize == 2
MaxSpecies == 2
MaxMeanCopies == 2

\* the arguments of direct calls
MaxCopyNum == 3
MaxNumSamples == 2

\* the targets line 8 is evaluated for, past the one where the cap sets in
MaxTarget == 250

\* no value yet
None == [t |-> "none", s |-> 0, m |-> << >>]
NoCall == [fn |-> "none", copy_num |-> 0, size |-> 0, num_samples |-> 0,
           species |-> 0, copies |-> 0]

\* a run of main() has ended and the page waits for the user
AtRest == pc \in {"idle", "done", "raised"}

Init ==
    /\ pc = "idle"
    /\ copy_number = DefaultCopyNumber
    /\ sample_size = DefaultSampleSize
    /\ total_species = DefaultTotalSpecies
    /\ mean_copies = DefaultMeanCopies
    /\ max_k = 0
    /\ log_poisson = << >>
    /\ prob_miss = << >>
    /\ log_prob_miss = << >>
    /\ pos = 0
    /\ sum_exp = None
    /\ samples_needed = 0
    /\ raised = "none"
    /\ copy_numbers = << >>
    /\ probabilities = << >>
    /\ call = NoCall
    /\ result = None

\* lines 45-67 and 69 with the button not pressed: the user has changed the
\* inputs (each at least 1, its min_value) and the page shows no result
NumberInput(target, size, species, copies) ==
    /\ AtRest
    /\ pc' = "idle"
    /\ copy_number' = target
    /\ sample_size' = size
    /\ total_species' = species
    /\ mean_copies' = copies
    /\ max_k' = 0
    /\ log_poisson' = << >>
    /\ prob_miss' = << >>
    /\ log_prob_miss' = << >>
    /\ pos' = 0
    /\ sum_exp' = None
    /\ samples_needed' = 0
    /\ raised' = "none"
    /\ copy_numbers' = << >>
    /\ probabilities' = << >>
    /\ UNCHANGED <<call, result>>

\* line 69 with the button pressed, the call of lines 71-76 and lines 8-19
Calculate ==
    /\ AtRest
    /\ pc' = "loop"
    /\ max_k' = MaxK(copy_number)
    /\ log_poisson' = LogPoisson(copy_number, MaxK(copy_number))
    /\ prob_miss' = ProbMiss(MaxK(copy_number), sample_size, total_species,
                             mean_copies)
    /\ log_prob_miss' = [k \in 0..MaxK(copy_number) |-> LogMaximum(prob_miss'[k])]
    /\ pos' = 0
    /\ sum_exp' = Inf(-1)
    /\ samples_needed' = 0
    /\ raised' = "none"
    /\ copy_numbers' = << >>
    /\ probabilities' = << >>
    /\ UNCHANGED <<copy_number, sample_size, total_species, mean_copies,
                   call, result>>

\* lines 20-21: one turn of the loop
LoopStep ==
    /\ pc = "loop"
    /\ pos <= max_k
    /\ sum_exp' = LogAddExp(sum_exp, Add(log_poisson[pos], log_prob_miss[pos]))
    /\ pos' = pos + 1
    /\ UNCHANGED <<pc, copy_number, sample_size, total_species, mean_copies,
                   max_k, log_poisson, prob_miss, log_prob_miss,
                   samples_needed, raised, copy_numbers, probabilities,
                   call, result>>

\* line 23: int() of nan is a ValueError, of an infinity an OverflowError
Return ==
    /\ pc = "loop"
    /\ pos > max_k
    /\ LET q == Div(Ln005, sum_exp)
       IN  IF IsNaN(q)
           THEN pc' = "raised" /\ raised' = "ValueError"
                /\ UNCHANGED samples_needed
           ELSE IF ~IsFinite(q)
           THEN pc' = "raised" /\ raised' = "OverflowError"
                /\ UNCHANGED samples_needed
           ELSE pc' = "returned" /\ samples_needed' = Ceil(q)
                /\ UNCHANGED raised
    /\ UNCHANGED <<copy_number, sample_size, total_species, mean_copies,
                   max_k, log_poisson, prob_miss, log_prob_miss, pos, sum_exp,
                   copy_numbers, probabilities, call, result>>

\* lines 78-93: the result is shown and the curve is computed
Curve ==
    /\ pc = "returned"
    /\ pc' = "done"
    /\ copy_numbers' = [i \in 1..max_copy_num(copy_number) |-> i]
    /\ probabilities' =
           [i \in 1..max_copy_num(copy_number) |->
               calculate_capture_probability(i, sample_size, samples_needed,
                                             total_species, mean_copies)]
    /\ UNCHANGED <<copy_number, sample_size, total_species, mean_copies,
                   max_k, log_poisson, prob_miss, log_prob_miss, pos, sum_exp,
                   samples_needed, raised, call, result>>

Next ==
    \/ \E target \in 1..MaxCopyNumber, size \in 1..MaxSampleSize,
          species \in 1..MaxSpecies, copies \in 1..MaxMeanCopies :
            NumberInput(target, size, species, copies)
    \/ Calculate
    \/ LoopStep
    \/ Return
    \/ Curve

Spec == Init /\ [][Next]_vars

(***************************************************************************)
(* calculate_capture_probability called directly, with arguments the page  *)
(* never passes as well: zero sizes and counts, zero copies.               *)
(***************************************************************************)
CallCapture(copy_num, size, num_samples, species, copies) ==
    /\ call' = [fn |-> "calculate_capture_probability", copy_num |-> copy_num,
                size |-> size, num_samples |-> num_samples,
                species |-> species, copies |-> copies]
    /\ result' = calculate_capture_probability(copy_num, size, num_samples,
                                               species, copies)
    /\ raised' = "none"
    /\ UNCHANGED <<pc, copy_number, sample_size, total_species, mean_copies,
                   max_k, log_poisson, prob_miss, log_prob_miss, pos, sum_exp,
                   samples_needed, copy_numbers, probabilities>>

NextCall ==
    \E copy_num \in 0..MaxCopyNum, size \in 0..MaxSampleSize,
       num_samples \in 0..MaxNumSamples, species \in 1..MaxSpecies,
       copies \in 1..MaxMeanCopies :
        CallCapture(copy_num, size, num_samples, species, copies)

SpecCall == Init /\ [][NextCall]_vars

(***************************************************************************)
(* The claims.                                                             *)
(***************************************************************************)

\* a direct call with the arguments the contract allows
ValidCall ==
    /\ call.fn = "calculate_capture_probability"
    /\ call.copy_num >= 0
    /\ call.size >= 1
    /\ call.num_samples >= 1
    /\ call.species >= 1
    /\ call.copies >= 1

\* C1: for valid inputs (the page passes no others) calculate_poisson_samples
\* returns an integer of at least 1, or raises NoFiniteSolution or
\* InvalidParameter; it never returns zero or a negative number.
C1_PositiveOrRaises ==
    /\ pc \in {"returned", "done"} => samples_needed >= 1
    /\ pc = "raised" => raised \in {"NoFiniteSolution", "InvalidParameter"}

\* C2: for valid arguments, copy numbers above total_species * mean_copies
\* included, calculate_capture_probability returns a value in [0, 100].
C2_InRange ==
    ValidCall => LessEq(Zero, result) /\ LessEq(result, FromInt(100))

\* C3: calculate_capture_probability does not decrease when copy_num,
\* sample_size or num_samples alone grows: the value returned is at most the
\* value for each of the three arguments raised by one.
C3_Monotone ==
    ValidCall =>
        /\ LessEq(result, calculate_capture_probability(call.copy_num + 1,
                call.size, call.num_samples, call.species, call.copies))
        /\ LessEq(result, calculate_capture_probability(call.copy_num,
                call.size + 1, call.num_samples, call.species, call.copies))
        /\ LessEq(result, calculate_capture_probability(call.copy_num,
                call.size, call.num_samples + 1, call.species, call.copies))

\* C4: whenever the log of the summed miss probability is >= 0 the call ends
\* in NoFiniteSolution and returns no integer.
C4_NoFiniteSolution ==
    (pc \in {"returned", "done", "raised"} /\ LessEq(Zero, sum_exp))
        => (pc = "raised" /\ raised = "NoFiniteSolution")

\* C5: a call in which an argument that must be positive is <= 0 is rejected
\* with InvalidParameter and returns no number.
C5_Rejected ==
    (/\ call.fn = "calculate_capture_probability"
     /\ \/ call.size <= 0
        \/ call.num_samples <= 0
        \/ call.species <= 0
        \/ call.copies <= 0)
        => raised = "InvalidParameter"

\* C6: for the inputs 30, 8000, 350000, 30 the count n returned is the least
\* that reaches 95%: calculate_capture_probability(30, 8000, n, 350000, 30)
\* is at least 95 and with n - 1 it is below 95.
C6_Regression ==
    (/\ pc \in {"returned", "done"}
     /\ copy_number = 30 /\ sample_size = 8000
     /\ total_species = 350000 /\ mean_copies = 30)
        => /\ LessEq(FromInt(95), calculate_capture_probability(
                  30, 8000, samples_needed, 350000, 30))
           /\ Less(calculate_capture_probability(
                  30, 8000, samples_needed - 1, 350000, 30), FromInt(95))

C6_Witness ==
    /\ pc = "returned"
    /\ copy_number = 30 /\ sample_size = 8000
    /\ total_species = 350000 /\ mean_copies = 30
    /\ samples_needed = 132

\* C7: when copy_num / (total_species * mean_copies) is >= 1 the value
\* returned is exactly 100 for every valid sample_size and num_samples, and
\* the base that line 28 raises to a power is not negative.
C7_Certain ==
    (ValidCall /\ call.copy_num >= call.species * call.copies)
        => /\ result = FromInt(100)
           /\ Sub(One, Div(FromInt(call.copy_num),
                           FromInt(call.species * call.copies))).s >= 0

\* C8: after Calculate the curve is, for k = 1, 2, ..., 2 * copy_number in
\* this order and with nothing else, the pair of k and
\* calculate_capture_probability(k, sample_size, n, total_species,
\* mean_copies), with n the one count this run's solver returned.
C8_Curve ==
    pc = "done" =>
        /\ samples_needed = Ceil(Div(Ln005, sum_exp))
        /\ DOMAIN copy_numbers = 1..(2 * copy_number)
        /\ DOMAIN probabilities = 1..(2 * copy_number)
        /\ \A k \in 1..(2 * copy_number) :
            /\ copy_numbers[k] = k
            /\ probabilities[k] =
                   calculate_capture_probability(k, sample_size, samples_needed,
                                                 total_species, mean_copies)

C8_Witness ==
    /\ pc = "done"
    /\ copy_number = 2
    /\ Len(probabilities) = 4
    /\ samples_needed > 0

\* C9: the terms with k >= total_species * mean_copies add nothing to the
\* sum, whether sample_size is odd or even: what line 21 adds for such a k,
\* the exponential of its term, is zero.
C9_Excluded ==
    pc = "returned" =>
        \A k \in 0..max_k :
            k >= total_species * mean_copies
                => Exp(Add(log_poisson[k], log_prob_miss[k])) = Zero

\* C10: the loop takes the terms for k = 0, 1, ..., min(1000, 5 * copy_number),
\* each once and in this order, which makes at most 1001 turns; every step
\* inside the loop takes the next term, and the step after the last term is
\* the return or the error.  Line 8 gives the bound for every target.
C10_LoopBounded ==
    /\ [](\A target \in 1..MaxTarget :
            /\ MaxK(target) = (IF 5 * target > 1000 THEN 1000 ELSE 5 * target)
            /\ MaxK(target) + 1 <= 1001)
    /\ [](pc = "loop" => /\ max_k = Min(1000, 5 * copy_number)
                         /\ max_k + 1 <= 1001
                         /\ pos \in 0..(max_k + 1))
    /\ [][pc = "loop" =>
            \/ /\ pc' = "loop"
               /\ pos <= max_k
               /\ pos' = pos + 1
               /\ sum_exp' = LogAddExp(sum_exp, Add(log_poisson[pos],
                                                    log_prob_miss[pos]))
            \/ /\ pc' \in {"returned", "raised"}
               /\ pos = max_k + 1]_vars

C10_Witness ==
    /\ pc = "returned"
    /\ copy_number = 2
    /\ pos = 11

=============================================================================
